---- MODULE Spec2Model ----
(***************************************************************************)
(* Model of relayer/src/link/cli.rs (hermes): the scheduled fetch of       *)
(* operational data of a RelayPath, the blocking connection-delay wait     *)
(* (wait_for_conn_delay) and the two interactive commands of a Link        *)
(* (packet-recv, packet-ack).                                              *)
(*                                                                         *)
(* One thread runs the code (the code holds no synchronisation and the     *)
(* callers are synchronous); the two chains advance on their own (Tick).   *)
(* Collaborators that are not part of cli.rs (conn_delay_remaining,        *)
(* try_fetch_scheduled_operational_data, events_to_operational_data, the   *)
(* queries and the submission) are modelled from their contract.           *)
(***************************************************************************)
EXTENDS Integers, Sequences, FiniteSets, TLC

\* ------------------------------------------------------------------ bounds
MaxTime == 1        \* chain clocks run over 0..MaxTime
MaxHeight == 1      \* chain heights run over 0..MaxHeight
MaxDelay == 1       \* connection_delay ranges over 0..MaxDelay
MaxBlocks == 2      \* small block-delay requirements range over 0..MaxBlocks
MaxBlockTime == 2   \* max_expected_time_per_block() answers 1..MaxBlockTime
MaxBatches == 2     \* operational data created in one behaviour
MaxSeq == 2         \* packet sequence numbers are 1..MaxSeq
MaxCount == 3       \* the per-call counters saturate here
WordBits == 3       \* width of the u32 working integer, scaled down: TLC's
                    \* integers stop at 2^31-1, the conversion rule is kept

Sides == {"src", "dst"}

RECURSIVE Pow2(_)
Pow2(n) == IF n = 0 THEN 1 ELSE 2 * Pow2(n - 1)

\* u32::MAX of `blocks_left.try_into()`, at the modelled width.
U32_MAX == Pow2(WordBits) - 1

BlockDelays == (0..MaxBlocks) \cup {U32_MAX + 1}

Max0(x) == IF x > 0 THEN x ELSE 0
Sat(n) == IF n < MaxCount THEN n + 1 ELSE MaxCount

\* ------------------------------------------------------------- state
VARIABLES
    connection_delay,        \* a_to_b.channel().connection_delay
    chain_time,              \* [side -> latest time of that chain]
    chain_height,            \* [side -> latest height of that chain]
    src_operational_data,    \* queue of the path, source side
    dst_operational_data,    \* queue of the path, destination side
    next_id,                 \* identity of the next operational data built
    op,                      \* operation the thread runs: none, fetch, recv, ack
    pc,                      \* position of the thread
    outcome,                 \* none | ok | err | panic of the running operation
    w,                       \* frame of wait_for_conn_delay
    wres,                    \* none | ok | err: what wait_for_conn_delay returned
    fetch_result,            \* Option<OperationalData> of the last fetch
    sequences,               \* unreceived sequence numbers of the command
    chunks,                  \* event chunks the packet-event query yields
    ci,                      \* chunks consumed so far
    results,                 \* `results` of the command
    src_ods, dst_ods,        \* what the non-blocking drain handed over
    \* history, read by the properties only
    effects,                 \* kinds of effect of the running operation
    steplog,                 \* fallible steps of the running command, in order
    pending,                 \* [side -> batches put in and not yet taken, in order]
    expected,                \* the batch the last fetch had to return
    q0,                      \* the two queues when the operation began
    touched,                 \* chain whose capabilities the last step called
    submitted,               \* batches handed to the submission, in order
    ingested                 \* batches the running command built, in order

envvars == <<connection_delay, chain_time, chain_height>>
queues == <<src_operational_data, dst_operational_data>>
cmdvars == <<sequences, chunks, ci, results, src_ods, dst_ods>>
vars == <<connection_delay, chain_time, chain_height, src_operational_data,
          dst_operational_data, next_id, op, pc, outcome, w, wres,
          fetch_result, sequences, chunks, ci, results, src_ods, dst_ods,
          effects, steplog, pending, expected, q0, touched, submitted,
          ingested>>

\* ---------------------------------------------------- operational data
NoData == [id |-> 0, target |-> "src", batch |-> <<>>, scheduled_time |-> 0,
           update_height |-> 0, delay_time |-> 0, delay_blocks |-> 0]

OperationalData(id, side, batch, dt, db) ==
    [id |-> id, target |-> side, batch |-> batch,
     scheduled_time |-> chain_time[side], update_height |-> chain_height[side],
     delay_time |-> dt, delay_blocks |-> db]

\* OperationalData::conn_delay_remaining: what is left of the two delays on
\* the given readings of the chain, each clamped at zero.
TimeRemaining(od, t) == Max0(od.delay_time - (t - od.scheduled_time))
BlocksRemaining(od, h) == Max0(od.delay_blocks - (h - od.update_height))

\* The delay of the batch measured on the live state of its chain.
LiveTimeLeft(od) == TimeRemaining(od, chain_time[od.target])
LiveBlocksLeft(od) == BlocksRemaining(od, chain_height[od.target])
Elapsed(od) == LiveTimeLeft(od) = 0 /\ LiveBlocksLeft(od) = 0

NoFrame == [odata |-> NoData, side |-> "src", time_left |-> 0, blocks_left |-> 0,
            slept |-> 0, read_time |-> 0, evals |-> 0, time_sleeps |-> 0,
            block_sleeps |-> 0, mbt |-> 0,
            calls |-> [time |-> 0, mbt |-> 0, height |-> 0]]

Frame(od, side) == [NoFrame EXCEPT !.odata = od, !.side = side]

\* ------------------------------------------------------------- events
Seqs == 1..MaxSeq

RECURSIVE SortedSeq(_)
SortedSeq(S) ==
    IF S = {} THEN <<>>
    ELSE LET m == CHOOSE x \in S : \A y \in S : x <= y
         IN <<m>> \o SortedSeq(S \ {m})

RECURSIVE ChunksOf(_, _)
ChunksOf(s, n) ==
    IF Len(s) = 0 THEN <<>>
    ELSE IF Len(s) <= n THEN <<s>>
    ELSE <<SubSeq(s, 1, n)>> \o ChunksOf(SubSeq(s, n + 1, Len(s)), n)

\* query_packet_events_with: the sequences in ascending order, cut in chunks
\* of the configured size; the lazy sequence ends at the first query that
\* fails, so any prefix of the chunks may be what the loop sees.
EventChunks(S) ==
    { SubSeq(ChunksOf(SortedSeq(S), n), 1, k) :
        <<n, k>> \in { p \in (1..MaxSeq) \X (0..MaxSeq) :
                        p[2] <= Len(ChunksOf(SortedSeq(S), p[1])) } }

AllChunks == { SortedSeq(S) : S \in (SUBSET Seqs) \ {{}} }

\* Events of a submission: one per packet of the chunk / message of the batch.
RelayEvents(chunk) == [i \in 1..Len(chunk) |-> <<"pkt", chunk[i]>>]
DataEvents(od) == [i \in 1..Len(od.batch) |-> <<"od", od.id, od.batch[i]>>]

Front(q) == IF q = <<>> THEN NoData ELSE Head(q)
Rest(q) == IF q = <<>> THEN <<>> ELSE Tail(q)

Queue(side) == IF side = "src" THEN src_operational_data ELSE dst_operational_data

\* --------------------------------------------------------------- Init
Init ==
    /\ connection_delay \in 0..MaxDelay
    /\ chain_time = [s \in Sides |-> 0]
    /\ chain_height = [s \in Sides |-> 0]
    /\ src_operational_data = <<>>
    /\ dst_operational_data = <<>>
    /\ next_id = 1
    /\ op = "none"
    /\ pc = "idle"
    /\ outcome = "none"
    /\ w = NoFrame
    /\ wres = "none"
    /\ fetch_result = NoData
    /\ sequences = {}
    /\ chunks = <<>>
    /\ ci = 0
    /\ results = <<>>
    /\ src_ods = <<>>
    /\ dst_ods = <<>>
    /\ effects = {}
    /\ steplog = <<>>
    /\ pending = [s \in Sides |-> <<>>]
    /\ expected = NoData
    /\ q0 = <<<<>>, <<>>>>
    /\ touched = {}
    /\ submitted = <<>>
    /\ ingested = <<>>

\* ------------------------------------------------------- environment
\* A chain produces a block or its clock moves on, at any moment. The thread
\* sees a chain only through the capability calls of wait_for_conn_delay, so
\* the model lets a chain move where the thread is asleep or about to read it
\* (the clocks count from the start of the behaviour: only differences are
\* ever used). On a path with a zero connection delay both remaining delays
\* are zero whatever the chain answers, and the chains are left alone.
ChainRead == {"wait_eval", "wait_sleep_time", "wait_sleep_blocks"}

ReadSides == IF pc \in ChainRead /\ connection_delay # 0 THEN {w.side} ELSE {}

TickTime(side) ==
    /\ side \in ReadSides
    /\ chain_time[side] < MaxTime
    /\ chain_time' = [chain_time EXCEPT ![side] = @ + 1]
    /\ touched' = {}
    /\ UNCHANGED <<connection_delay, chain_height, queues, next_id, op, pc,
                   outcome, w, wres, fetch_result, cmdvars, effects, steplog,
                   pending, expected, q0, submitted,
                   ingested>>

TickHeight(side) ==
    /\ side \in ReadSides
    /\ chain_height[side] < MaxHeight
    /\ chain_height' = [chain_height EXCEPT ![side] = @ + 1]
    /\ touched' = {}
    /\ UNCHANGED <<connection_delay, chain_time, queues, next_id, op, pc,
                   outcome, w, wres, fetch_result, cmdvars, effects, steplog,
                   pending, expected, q0, submitted,
                   ingested>>

\* ------------------------------------------------------------ ingestion
\* events_to_operational_data: builds operational data from the events of a
\* chunk and pushes it at the back of the queue of the side it targets. The
\* batch carries the delay of the channel; a zero connection delay asks for
\* zero blocks.
events_to_operational_data(chunk, S, db) ==
    LET srcnew == IF "src" \in S
                  THEN <<OperationalData(next_id, "src", chunk, connection_delay, db)>>
                  ELSE <<>>
        dstnew == IF "dst" \in S
                  THEN <<OperationalData(next_id + Len(srcnew), "dst", chunk,
                                         connection_delay, db)>>
                  ELSE <<>>
    IN /\ next_id + Cardinality(S) - 1 <= MaxBatches
       /\ connection_delay = 0 => db = 0
       /\ src_operational_data' = src_operational_data \o srcnew
       /\ dst_operational_data' = dst_operational_data \o dstnew
       /\ next_id' = next_id + Cardinality(S)
       /\ pending' = [pending EXCEPT !["src"] = @ \o srcnew, !["dst"] = @ \o dstnew]

\* The supervisor feeds the path between two operations.
Enqueue ==
    /\ pc = "idle"
    /\ \E chunk \in AllChunks, S \in (SUBSET Sides) \ {{}}, db \in BlockDelays :
          events_to_operational_data(chunk, S, db)
    /\ touched' = {}
    /\ UNCHANGED <<envvars, op, pc, outcome, w, wres, fetch_result, cmdvars,
                   effects, steplog, expected, q0, submitted,
                   ingested>>

\* Variants of the fetch with a slip in it (the properties below tell them
\* from the code): the destination queue served first; the back of the queue
\* taken.
fetch_dst_first(eff, nonepc) ==
    IF dst_operational_data # <<>>
    THEN /\ dst_operational_data' = Tail(dst_operational_data)
         /\ src_operational_data' = src_operational_data
         /\ w' = Frame(Head(dst_operational_data), "dst")
         /\ pc' = "wait_eval"
         /\ effects' = eff \cup {"pop", "resolve"}
    ELSE IF src_operational_data # <<>>
    THEN /\ src_operational_data' = Tail(src_operational_data)
         /\ dst_operational_data' = dst_operational_data
         /\ w' = Frame(Head(src_operational_data), "src")
         /\ pc' = "wait_eval"
         /\ effects' = eff \cup {"pop", "resolve"}
    ELSE /\ UNCHANGED <<queues, w>>
         /\ pc' = nonepc
         /\ effects' = eff

Last(q) == q[Len(q)]
ButLast(q) == SubSeq(q, 1, Len(q) - 1)

fetch_pop_back(eff, nonepc) ==
    IF src_operational_data # <<>>
    THEN /\ src_operational_data' = ButLast(src_operational_data)
         /\ dst_operational_data' = dst_operational_data
         /\ w' = Frame(Last(src_operational_data), "src")
         /\ pc' = "wait_eval"
         /\ effects' = eff \cup {"pop", "resolve"}
    ELSE IF dst_operational_data # <<>>
    THEN /\ dst_operational_data' = ButLast(dst_operational_data)
         /\ src_operational_data' = src_operational_data
         /\ w' = Frame(Last(dst_operational_data), "dst")
         /\ pc' = "wait_eval"
         /\ effects' = eff \cup {"pop", "resolve"}
    ELSE /\ UNCHANGED <<queues, w>>
         /\ pc' = nonepc
         /\ effects' = eff

\* Variant: a fetch that finds both queues empty enters the wait all the same.
fetch_resolve_none(eff, nonepc) ==
    IF src_operational_data # <<>>
    THEN /\ src_operational_data' = Tail(src_operational_data)
         /\ dst_operational_data' = dst_operational_data
         /\ w' = Frame(Head(src_operational_data), "src")
         /\ pc' = "wait_eval"
         /\ effects' = eff \cup {"pop", "resolve"}
    ELSE IF dst_operational_data # <<>>
    THEN /\ dst_operational_data' = Tail(dst_operational_data)
         /\ src_operational_data' = src_operational_data
         /\ w' = Frame(Head(dst_operational_data), "dst")
         /\ pc' = "wait_eval"
         /\ effects' = eff \cup {"pop", "resolve"}
    ELSE /\ UNCHANGED queues
         /\ w' = Frame(NoData, "src")
         /\ pc' = "wait_eval"
         /\ effects' = eff \cup {"resolve"}

\* ------------------------------------------------------ scheduled fetch
\* RelayPath::fetch_scheduled_operational_data up to the call of
\* wait_for_conn_delay: the front of src_operational_data, else the front of
\* dst_operational_data, else Ok(None) (the thread goes on at `nonepc`).
fetch_scheduled_operational_data(eff, nonepc) ==
    IF src_operational_data # <<>>
    THEN /\ src_operational_data' = Tail(src_operational_data)
         /\ dst_operational_data' = dst_operational_data
         /\ w' = Frame(Head(src_operational_data), "src")
         /\ pc' = "wait_eval"
         /\ effects' = eff \cup {"pop", "resolve"}
    ELSE IF dst_operational_data # <<>>
    THEN /\ dst_operational_data' = Tail(dst_operational_data)
         /\ src_operational_data' = src_operational_data
         /\ w' = Frame(Head(dst_operational_data), "dst")
         /\ pc' = "wait_eval"
         /\ effects' = eff \cup {"pop", "resolve"}
    ELSE /\ UNCHANGED <<queues, w>>
         /\ pc' = nonepc
         /\ effects' = eff

BothEmpty == src_operational_data = <<>> /\ dst_operational_data = <<>>

\* A background caller fetches one scheduled operational data.
PathFetch ==
    /\ pc = "idle"
    /\ op' = "fetch"
    /\ fetch_scheduled_operational_data({}, "done")
    /\ outcome' = IF BothEmpty THEN "ok" ELSE "none"
    /\ wres' = "none"
    /\ fetch_result' = NoData
    /\ q0' = <<src_operational_data, dst_operational_data>>
    /\ touched' = {}
    /\ UNCHANGED <<envvars, next_id, cmdvars, steplog, pending, expected,
                   submitted, ingested>>

\* Variant: a batch whose wait failed is put back at the front of its queue.
PathFetchReturn_PutBack ==
    /\ pc = "wait_ret"
    /\ op = "fetch"
    /\ pc' = "done"
    /\ IF wres = "ok"
       THEN /\ outcome' = "ok"
            /\ fetch_result' = w.odata
            /\ expected' = Front(pending[w.side])
            /\ pending' = [pending EXCEPT ![w.side] = Rest(@)]
            /\ UNCHANGED queues
       ELSE /\ outcome' = "err"
            /\ fetch_result' = NoData
            /\ expected' = NoData
            /\ pending' = pending
            /\ src_operational_data' = IF w.side = "src"
                                       THEN <<w.odata>> \o src_operational_data
                                       ELSE src_operational_data
            /\ dst_operational_data' = IF w.side = "dst"
                                       THEN <<w.odata>> \o dst_operational_data
                                       ELSE dst_operational_data
    /\ touched' = {}
    /\ UNCHANGED <<envvars, next_id, op, w, wres, cmdvars, effects,
                   steplog, q0, submitted, ingested>>

\* wait_for_conn_delay has returned to fetch_scheduled_operational_data,
\* which hands Ok(Some(odata)) or the error to the background caller.
PathFetchReturn ==
    /\ pc = "wait_ret"
    /\ op = "fetch"
    /\ pc' = "done"
    /\ IF wres = "ok"
       THEN /\ outcome' = "ok"
            /\ fetch_result' = w.odata
            /\ expected' = Front(pending[w.side])
       ELSE /\ outcome' = "err"
            /\ fetch_result' = NoData
            /\ expected' = NoData
    /\ pending' = [pending EXCEPT ![w.side] = Rest(@)]
    /\ touched' = {}
    /\ UNCHANGED <<envvars, queues, next_id, op, w, wres, cmdvars, effects,
                   steplog, q0, submitted,
                   ingested>>

\* ------------------------------------------------- wait_for_conn_delay
CallsAfter(c, fail) ==
    [time |-> Sat(c.time),
     mbt |-> IF fail = "time" THEN c.mbt ELSE Sat(c.mbt),
     height |-> IF fail \in {"time", "mbt"} THEN c.height ELSE Sat(c.height)]

\* Variant: a failure of a capability is swallowed and the match is taken on
\* what the frame holds.
WaitEval_IgnoreFailure ==
    /\ pc = "wait_eval"
    /\ \E fail \in {"none", "time", "mbt", "height"} :
         w' = [w EXCEPT
                 !.evals = Sat(@),
                 !.calls = CallsAfter(@, fail),
                 !.read_time = chain_time[w.side],
                 !.time_left = IF fail = "none"
                               THEN TimeRemaining(w.odata, chain_time[w.side])
                               ELSE @,
                 !.blocks_left = IF fail = "none"
                                 THEN BlocksRemaining(w.odata, chain_height[w.side])
                                 ELSE @]
    /\ pc' = "wait_match"
    /\ touched' = {w.side}
    /\ effects' = effects \cup {"cap"}
    /\ UNCHANGED <<envvars, queues, next_id, op, outcome, wres, fetch_result,
                   cmdvars, steplog, pending, expected, q0, submitted,
                   ingested>>

\* odata.conn_delay_remaining(chain_time, max_expected_time_per_block,
\* latest_height)?: the three capabilities of the chain are called, the first
\* failure is the error of the call.
WaitEval ==
    /\ pc = "wait_eval"
    /\ \E fail \in {"none", "time", "mbt", "height"} :
         /\ w' = [w EXCEPT
                    !.evals = Sat(@),
                    !.calls = CallsAfter(@, fail),
                    !.read_time = chain_time[w.side],
                    !.time_left = IF fail = "none"
                                  THEN TimeRemaining(w.odata, chain_time[w.side])
                                  ELSE @,
                    !.blocks_left = IF fail = "none"
                                    THEN BlocksRemaining(w.odata, chain_height[w.side])
                                    ELSE @]
         /\ IF fail = "none"
            THEN pc' = "wait_match" /\ wres' = wres
            ELSE pc' = "wait_ret" /\ wres' = "err"
    /\ touched' = {w.side}
    /\ effects' = effects \cup {"cap"}
    /\ UNCHANGED <<envvars, queues, next_id, op, outcome, fetch_result, cmdvars,
                   steplog, pending, expected, q0, submitted,
                   ingested>>

\* Variant: the ready batch is returned after one more call of a capability.
WaitReady_ExtraCall ==
    /\ pc = "wait_match"
    /\ w.time_left = 0 /\ w.blocks_left = 0
    /\ pc' = "wait_ret"
    /\ wres' = "ok"
    /\ w' = [w EXCEPT !.calls.mbt = Sat(@)]
    /\ touched' = {w.side}
    /\ UNCHANGED <<envvars, queues, next_id, op, outcome, fetch_result,
                   cmdvars, effects, steplog, pending, expected, q0,
                   submitted, ingested>>

\* (Duration::ZERO, 0) => Ok(odata)
WaitReady ==
    /\ pc = "wait_match"
    /\ w.time_left = 0 /\ w.blocks_left = 0
    /\ pc' = "wait_ret"
    /\ wres' = "ok"
    /\ touched' = {}
    /\ UNCHANGED <<envvars, queues, next_id, op, outcome, w, fetch_result,
                   cmdvars, effects, steplog, pending, expected, q0,
                   submitted, ingested>>

\* Variant: the count converted with no range check.
FitsU32_Unchecked(n) == TRUE

\* blocks_left.try_into().expect("blocks_left > u32::MAX")
FitsU32(n) == n <= U32_MAX

\* Variant: one block time slept, whatever the count of blocks.
BlockSleep_OneBlock(n, m) == m

\* blocks_left * max_expected_time_per_block()?
BlockSleep(n, m) == n * m

\* (Duration::ZERO, blocks_left) => the conversion to u32 (a panic when it
\* does not fit), then max_expected_time_per_block()?, then the sleep.
WaitBlocks ==
    /\ pc = "wait_match"
    /\ w.time_left = 0 /\ w.blocks_left > 0
    /\ IF ~FitsU32(w.blocks_left)
       THEN /\ pc' = "panicked"
            /\ outcome' = "panic"
            /\ UNCHANGED <<w, wres, effects>>
            /\ touched' = {}
       ELSE /\ \E m \in 0..MaxBlockTime :
                 \* m = 0 stands for the failure of the capability
                 IF m = 0
                 THEN /\ pc' = "wait_ret"
                      /\ wres' = "err"
                      /\ w' = [w EXCEPT !.calls.mbt = Sat(@)]
                      /\ effects' = effects \cup {"cap"}
                 ELSE /\ pc' = "wait_sleep_blocks"
                      /\ wres' = wres
                      /\ w' = [w EXCEPT !.calls.mbt = Sat(@),
                                        !.mbt = m,
                                        !.slept = BlockSleep(w.blocks_left, m),
                                        !.block_sleeps = Sat(@)]
                      /\ effects' = effects \cup {"cap", "sleep"}
            /\ touched' = {w.side}
            /\ outcome' = outcome
    /\ UNCHANGED <<envvars, queues, next_id, op, fetch_result, cmdvars,
                   steplog, pending, expected, q0, submitted,
                   ingested>>

\* Variant: the height is checked again after the sleep.
WakeBlocks_Recheck ==
    /\ pc = "wait_sleep_blocks"
    /\ pc' = "wait_eval"
    /\ touched' = {}
    /\ UNCHANGED <<envvars, queues, next_id, op, outcome, w, wres, fetch_result,
                   cmdvars, effects, steplog, pending, expected, q0,
                   submitted, ingested>>

\* thread::sleep(blocks_left * max_expected_time_per_block()?) is over:
\* Ok(odata), the height is not read again.
WakeBlocks ==
    /\ pc = "wait_sleep_blocks"
    /\ pc' = "wait_ret"
    /\ wres' = "ok"
    /\ touched' = {}
    /\ UNCHANGED <<envvars, queues, next_id, op, outcome, w, fetch_result,
                   cmdvars, effects, steplog, pending, expected, q0,
                   submitted, ingested>>

\* (time_left, _) => thread::sleep(time_left)
WaitTime ==
    /\ pc = "wait_match"
    /\ w.time_left > 0
    /\ pc' = "wait_sleep_time"
    /\ w' = [w EXCEPT !.slept = w.time_left, !.time_sleeps = Sat(@)]
    /\ effects' = effects \cup {"sleep"}
    /\ touched' = {}
    /\ UNCHANGED <<envvars, queues, next_id, op, outcome, wres, fetch_result,
                   cmdvars, steplog, pending, expected, q0, submitted,
                   ingested>>

\* Variant: the batch is returned as soon as the sleep is over.
WakeTime_ReturnNow ==
    /\ pc = "wait_sleep_time"
    /\ pc' = "wait_ret"
    /\ wres' = "ok"
    /\ touched' = {}
    /\ UNCHANGED <<envvars, queues, next_id, op, outcome, w, fetch_result,
                   cmdvars, effects, steplog, pending, expected, q0,
                   submitted, ingested>>

\* Variant: after the sleep the match is taken again on the values measured
\* before it, the time taken as passed.
WakeTime_Cached ==
    /\ pc = "wait_sleep_time"
    /\ pc' = "wait_match"
    /\ w' = [w EXCEPT !.time_left = 0]
    /\ touched' = {}
    /\ UNCHANGED <<envvars, queues, next_id, op, outcome, wres, fetch_result,
                   cmdvars, effects, steplog, pending, expected, q0,
                   submitted, ingested>>

\* The sleep is over: wait_for_conn_delay calls itself with the same odata.
WakeTime ==
    /\ pc = "wait_sleep_time"
    /\ pc' = "wait_eval"
    /\ touched' = {}
    /\ UNCHANGED <<envvars, queues, next_id, op, outcome, w, wres, fetch_result,
                   cmdvars, effects, steplog, pending, expected, q0,
                   submitted, ingested>>

\* The caller takes the result of the operation; the thread is free again.
Return ==
    /\ pc = "done"
    /\ pc' = "idle"
    /\ op' = "none"
    /\ outcome' = "none"
    /\ w' = NoFrame
    /\ wres' = "none"
    /\ fetch_result' = NoData
    /\ sequences' = {}
    /\ chunks' = <<>>
    /\ ci' = 0
    /\ results' = <<>>
    /\ src_ods' = <<>>
    /\ dst_ods' = <<>>
    /\ effects' = {}
    /\ steplog' = <<>>
    /\ touched' = {}
    /\ expected' = NoData
    /\ q0' = <<<<>>, <<>>>>
    /\ submitted' = <<>>
    /\ ingested' = <<>>
    /\ UNCHANGED <<envvars, queues, next_id, pending>>

\* Variant: the command entered with the check of the delay left out.
RecvStart_NoDelayCheck ==
    /\ pc = "idle"
    /\ op' = "recv"
    /\ pc' = "recv_query"
    /\ outcome' = "none"
    /\ effects' = {}
    /\ steplog' = <<>>
    /\ q0' = <<src_operational_data, dst_operational_data>>
    /\ touched' = {}
    /\ UNCHANGED <<envvars, queues, next_id, w, wres, fetch_result, cmdvars,
                   pending, expected, submitted,
                   ingested>>

\* ------------------------------------------------ packet-recv command
\* Link::relay_recv_packet_and_timeout_messages, entry: the command refuses
\* a path with a non-zero connection delay by a panic.
RecvStart ==
    /\ pc = "idle"
    /\ op' = "recv"
    /\ IF connection_delay # 0
       THEN pc' = "panicked" /\ outcome' = "panic"
       ELSE pc' = "recv_query" /\ outcome' = "none"
    /\ effects' = {}
    /\ steplog' = <<>>
    /\ q0' = <<src_operational_data, dst_operational_data>>
    /\ touched' = {}
    /\ UNCHANGED <<envvars, queues, next_id, w, wres, fetch_result, cmdvars,
                   pending, expected, submitted,
                   ingested>>

\* unreceived_packets(..)?, the early return on an empty set, and the
\* packet-event query whose chunks the loop will walk.
UnreceivedQuery(nextpc) ==
    \E ok \in BOOLEAN :
       /\ steplog' = Append(steplog, <<"unreceived", 0>>)
       /\ IF ~ok
          THEN /\ pc' = "done" /\ outcome' = "err"
               /\ effects' = effects \cup {"query"}
               /\ UNCHANGED <<sequences, chunks>>
          ELSE \E S \in SUBSET Seqs :
                 /\ sequences' = S
                 /\ IF S = {}
                    THEN /\ pc' = "done" /\ outcome' = "ok"
                         /\ effects' = effects \cup {"query"}
                         /\ chunks' = chunks
                    ELSE /\ pc' = nextpc /\ outcome' = outcome
                         /\ effects' = effects \cup {"query", "events_query"}
                         /\ chunks' \in EventChunks(S)

RecvQuery ==
    /\ pc = "recv_query"
    /\ UnreceivedQuery("recv_chunk")
    /\ touched' = {}
    /\ UNCHANGED <<envvars, queues, next_id, op, w, wres, fetch_result, ci,
                   results, src_ods, dst_ods, pending, expected, q0,
                   submitted, ingested>>

\* Variant: the events of a chunk put in front of the results.
PrependEvents(res, events) == events \o res

\* results.append(&mut last_events.events)
AppendEvents(res, events) == res \o events

\* Variant: a failed relay of a chunk is tried again.
RecvRelay_Retry ==
    /\ pc = "recv_chunk"
    /\ ci < Len(chunks)
    /\ steplog' = Append(steplog, <<"relay_events", ci + 1>>)
    /\ effects' = effects \cup {"relay"}
    /\ \E ok \in BOOLEAN :
         IF ok
         THEN /\ results' = AppendEvents(results, RelayEvents(chunks[ci + 1]))
              /\ ci' = ci + 1
         ELSE UNCHANGED <<results, ci>>
    /\ touched' = {}
    /\ UNCHANGED <<envvars, queues, next_id, op, pc, outcome, w, wres,
                   fetch_result, sequences, chunks, src_ods, dst_ods, pending,
                   expected, q0, submitted,
                   ingested>>

\* Variant: the chunk goes through the queue of the path, as in packet-ack.
RecvRelay_ViaQueue ==
    /\ pc = "recv_chunk"
    /\ ci < Len(chunks)
    /\ steplog' = Append(steplog, <<"relay_events", ci + 1>>)
    /\ effects' = effects \cup {"push"}
    /\ events_to_operational_data(chunks[ci + 1], {"dst"}, 0)
    /\ ci' = ci + 1
    /\ touched' = {}
    /\ UNCHANGED <<envvars, op, pc, outcome, w, wres, fetch_result, sequences,
                   chunks, results, src_ods, dst_ods, expected, q0, submitted,
                   ingested>>

\* One turn of the loop: relay_from_events(events_chunk)?, then the append.
RecvRelay ==
    /\ pc = "recv_chunk"
    /\ ci < Len(chunks)
    /\ steplog' = Append(steplog, <<"relay_events", ci + 1>>)
    /\ effects' = effects \cup {"relay"}
    /\ \E ok \in BOOLEAN :
         IF ok
         THEN /\ results' = AppendEvents(results, RelayEvents(chunks[ci + 1]))
              /\ ci' = ci + 1
              /\ UNCHANGED <<pc, outcome>>
         ELSE /\ pc' = "done" /\ outcome' = "err"
              /\ UNCHANGED <<results, ci>>
    /\ touched' = {}
    /\ UNCHANGED <<envvars, queues, next_id, op, w, wres, fetch_result,
                   sequences, chunks, src_ods, dst_ods, pending, expected,
                   q0, submitted,
                   ingested>>

\* The chunks are exhausted: Ok(results).
RecvFinish ==
    /\ pc = "recv_chunk"
    /\ ci = Len(chunks)
    /\ pc' = "done"
    /\ outcome' = "ok"
    /\ touched' = {}
    /\ UNCHANGED <<envvars, queues, next_id, op, w, wres, fetch_result, cmdvars,
                   effects, steplog, pending, expected, q0, submitted,
                   ingested>>

\* ------------------------------------------------- packet-ack command
\* Link::relay_ack_packet_messages, entry: the same refusal.
AckStart ==
    /\ pc = "idle"
    /\ op' = "ack"
    /\ IF connection_delay # 0
       THEN pc' = "panicked" /\ outcome' = "panic"
       ELSE pc' = "ack_query" /\ outcome' = "none"
    /\ effects' = {}
    /\ steplog' = <<>>
    /\ q0' = <<src_operational_data, dst_operational_data>>
    /\ touched' = {}
    /\ UNCHANGED <<envvars, queues, next_id, w, wres, fetch_result, cmdvars,
                   pending, expected, submitted,
                   ingested>>

AckQuery ==
    /\ pc = "ack_query"
    /\ UnreceivedQuery("ack_chunk")
    /\ touched' = {}
    /\ UNCHANGED <<envvars, queues, next_id, op, w, wres, fetch_result, ci,
                   results, src_ods, dst_ods, pending, expected, q0,
                   submitted, ingested>>

\* self.a_to_b.events_to_operational_data(events_chunk)?
AckIngest ==
    /\ pc = "ack_chunk"
    /\ ci < Len(chunks)
    /\ steplog' = Append(steplog, <<"ingest", ci + 1>>)
    /\ \E ok \in BOOLEAN :
         IF ok
         THEN \E S \in SUBSET Sides :
                /\ events_to_operational_data(chunks[ci + 1], S, 0)
                /\ ingested' = ingested \o
                                 [i \in 1..Cardinality(S) |-> next_id + i - 1]
                /\ effects' = effects \cup (IF S = {} THEN {} ELSE {"push"})
                /\ pc' = "ack_drain"
                /\ outcome' = outcome
         ELSE /\ pc' = "done" /\ outcome' = "err"
              /\ UNCHANGED <<queues, next_id, pending, effects, ingested>>
    /\ touched' = {}
    /\ UNCHANGED <<envvars, op, w, wres, fetch_result, cmdvars, expected,
                   q0, submitted>>

\* try_fetch_scheduled_operational_data: no blocking; the batches of each
\* queue whose connection delay has elapsed are handed over in queue order,
\* the others stay queued.
Ready(q) == SelectSeq(q, Elapsed)
NotElapsed(od) == ~Elapsed(od)
Retained(q) == SelectSeq(q, NotElapsed)

\* Variant: the drain hands the ready batches over and leaves them queued.
AckDrain_KeepQueued ==
    /\ pc = "ack_drain"
    /\ steplog' = Append(steplog, <<"drain", ci + 1>>)
    /\ \E ok \in BOOLEAN :
         IF ok
         THEN /\ src_ods' = Ready(src_operational_data)
              /\ dst_ods' = Ready(dst_operational_data)
              /\ effects' = effects \cup {"cap"}
              /\ pc' = "ack_relay"
              /\ outcome' = outcome
         ELSE /\ pc' = "done" /\ outcome' = "err"
              /\ effects' = effects \cup {"cap"}
              /\ UNCHANGED <<src_ods, dst_ods>>
    /\ touched' = Sides
    /\ UNCHANGED <<envvars, queues, pending, next_id, op, w, wres, fetch_result,
                   sequences, chunks, ci, results, expected, q0, submitted,
                   ingested>>

\* let (src_ods, dst_ods) = self.a_to_b.try_fetch_scheduled_operational_data()?
AckDrain ==
    /\ pc = "ack_drain"
    /\ steplog' = Append(steplog, <<"drain", ci + 1>>)
    /\ \E ok \in BOOLEAN :
         IF ok
         THEN /\ src_ods' = Ready(src_operational_data)
              /\ dst_ods' = Ready(dst_operational_data)
              /\ src_operational_data' = Retained(src_operational_data)
              /\ dst_operational_data' = Retained(dst_operational_data)
              /\ pending' = [s \in Sides |-> Retained(pending[s])]
              /\ effects' = effects \cup {"cap"}
                   \cup (IF Ready(src_operational_data) \o Ready(dst_operational_data)
                            # <<>> THEN {"pop"} ELSE {})
              /\ pc' = "ack_relay"
              /\ outcome' = outcome
         ELSE /\ pc' = "done" /\ outcome' = "err"
              /\ effects' = effects \cup {"cap"}
              /\ UNCHANGED <<queues, src_ods, dst_ods, pending>>
    /\ touched' = Sides
    /\ UNCHANGED <<envvars, next_id, op, w, wres, fetch_result, sequences,
                   chunks, ci, results, expected, q0, submitted,
                   ingested>>

\* self.relay_from_operational_data::<SyncSender>(od)? and the append of the
\* events of the reply.
Submit(od, okpc) ==
    /\ submitted' = Append(submitted, od.id)
    /\ steplog' = Append(steplog, <<"submit", od.id>>)
    /\ effects' = effects \cup {"relay"}
    /\ \E ok \in BOOLEAN :
         IF ok
         THEN /\ results' = AppendEvents(results, DataEvents(od))
              /\ pc' = okpc
              /\ outcome' = outcome
         ELSE /\ pc' = "done" /\ outcome' = "err"
              /\ results' = results

\* Variant: when a submission fails the batches not yet relayed go back to
\* the front of their queues.
AckRelayDst_Requeue ==
    /\ pc = "ack_relay"
    /\ dst_ods # <<>>
    /\ submitted' = Append(submitted, Head(dst_ods).id)
    /\ steplog' = Append(steplog, <<"submit", Head(dst_ods).id>>)
    /\ effects' = effects \cup {"relay"}
    /\ \E ok \in BOOLEAN :
         IF ok
         THEN /\ results' = AppendEvents(results, DataEvents(Head(dst_ods)))
              /\ pc' = "ack_relay"
              /\ outcome' = outcome
              /\ UNCHANGED queues
         ELSE /\ pc' = "done" /\ outcome' = "err"
              /\ results' = results
              /\ dst_operational_data' = Tail(dst_ods) \o dst_operational_data
              /\ src_operational_data' = src_ods \o src_operational_data
    /\ dst_ods' = Tail(dst_ods)
    /\ touched' = {}
    /\ UNCHANGED <<envvars, next_id, op, w, wres, fetch_result,
                   sequences, chunks, ci, src_ods, pending, expected, q0,
                   ingested>>

\* for od in dst_ods { .. }
AckRelayDst ==
    /\ pc = "ack_relay"
    /\ dst_ods # <<>>
    /\ Submit(Head(dst_ods), "ack_relay")
    /\ dst_ods' = Tail(dst_ods)
    /\ touched' = {}
    /\ UNCHANGED <<envvars, queues, next_id, op, w, wres, fetch_result,
                   sequences, chunks, ci, src_ods, pending, expected, q0,
                   ingested>>

\* Variant: the source-bound batches relayed without waiting for the
\* destination-bound ones.
AckRelaySrc_First ==
    /\ pc = "ack_relay"
    /\ src_ods # <<>>
    /\ Submit(Head(src_ods), "ack_relay")
    /\ src_ods' = Tail(src_ods)
    /\ touched' = {}
    /\ UNCHANGED <<envvars, queues, next_id, op, w, wres, fetch_result,
                   sequences, chunks, ci, dst_ods, pending, expected, q0,
                   ingested>>

\* for od in src_ods { .. }
AckRelaySrc ==
    /\ pc = "ack_relay"
    /\ dst_ods = <<>>
    /\ src_ods # <<>>
    /\ Submit(Head(src_ods), "ack_relay")
    /\ src_ods' = Tail(src_ods)
    /\ touched' = {}
    /\ UNCHANGED <<envvars, queues, next_id, op, w, wres, fetch_result,
                   sequences, chunks, ci, dst_ods, pending, expected, q0,
                   ingested>>

\* The body of the loop is over for this chunk.
AckChunkDone ==
    /\ pc = "ack_relay"
    /\ dst_ods = <<>>
    /\ src_ods = <<>>
    /\ ci' = ci + 1
    /\ pc' = "ack_chunk"
    /\ touched' = {}
    /\ UNCHANGED <<envvars, queues, next_id, op, outcome, w, wres, fetch_result,
                   sequences, chunks, results, src_ods, dst_ods, effects,
                   steplog, pending, expected, q0, submitted,
                   ingested>>

\* Variant: the command returns after the chunks, with no final loop.
AckChunksEnd_NoDrain ==
    /\ pc = "ack_chunk"
    /\ ci = Len(chunks)
    /\ pc' = "done"
    /\ outcome' = "ok"
    /\ touched' = {}
    /\ UNCHANGED <<envvars, queues, next_id, op, w, wres, fetch_result,
                   cmdvars, effects, steplog, pending, expected, q0,
                   submitted, ingested>>

\* The chunks are exhausted: on to the `while let Some(odata)` loop.
AckChunksEnd ==
    /\ pc = "ack_chunk"
    /\ ci = Len(chunks)
    /\ pc' = "ack_loop"
    /\ touched' = {}
    /\ UNCHANGED <<envvars, queues, next_id, op, outcome, w, wres, fetch_result,
                   cmdvars, effects, steplog, pending, expected, q0,
                   submitted, ingested>>

\* while let Some(odata) = self.a_to_b.fetch_scheduled_operational_data()?
\* Ok(None) ends the loop and the command returns Ok(results).
AckFetch ==
    /\ pc = "ack_loop"
    /\ fetch_scheduled_operational_data(effects, "done")
    /\ outcome' = IF BothEmpty THEN "ok" ELSE outcome
    /\ steplog' = Append(steplog,
                    <<"fetch", IF src_operational_data # <<>>
                               THEN Head(src_operational_data).id
                               ELSE IF dst_operational_data # <<>>
                               THEN Head(dst_operational_data).id
                               ELSE 0>>)
    /\ wres' = "none"
    /\ fetch_result' = NoData
    /\ touched' = {}
    /\ UNCHANGED <<envvars, next_id, op, cmdvars, pending, expected, q0,
                   submitted, ingested>>

\* wait_for_conn_delay has returned inside the loop.
AckFetchReturn ==
    /\ pc = "wait_ret"
    /\ op = "ack"
    /\ IF wres = "ok"
       THEN /\ pc' = "ack_final_relay"
            /\ outcome' = outcome
            /\ fetch_result' = w.odata
            /\ expected' = Front(pending[w.side])
       ELSE /\ pc' = "done"
            /\ outcome' = "err"
            /\ fetch_result' = NoData
            /\ expected' = NoData
    /\ pending' = [pending EXCEPT ![w.side] = Rest(@)]
    /\ touched' = {}
    /\ UNCHANGED <<envvars, queues, next_id, op, w, wres, cmdvars, effects,
                   steplog, q0, submitted,
                   ingested>>

\* self.a_to_b.relay_from_operational_data::<SyncSender>(odata)?
AckFinalRelay ==
    /\ pc = "ack_final_relay"
    /\ Submit(fetch_result, "ack_loop")
    /\ touched' = {}
    /\ UNCHANGED <<envvars, queues, next_id, op, w, wres, fetch_result,
                   sequences, chunks, ci, src_ods, dst_ods, pending, expected,
                   q0, ingested>>

\* What the caller of a command is handed: Ok(results), or the error alone.
ReturnedEvents == IF outcome = "ok" THEN results ELSE <<>>

Next ==
    \/ \E side \in Sides : TickTime(side)
    \/ \E side \in Sides : TickHeight(side)
    \/ Enqueue
    \/ PathFetch
    \/ PathFetchReturn
    \/ WaitEval
    \/ WaitReady
    \/ WaitBlocks
    \/ WakeBlocks
    \/ WaitTime
    \/ WakeTime
    \/ RecvStart
    \/ RecvQuery
    \/ RecvRelay
    \/ RecvFinish
    \/ AckStart
    \/ AckQuery
    \/ AckIngest
    \/ AckDrain
    \/ AckRelayDst
    \/ AckRelaySrc
    \/ AckChunkDone
    \/ AckChunksEnd
    \/ AckFetch
    \/ AckFetchReturn
    \/ AckFinalRelay
    \/ Return

Spec == Init /\ [][Next]_vars

\* ===================================================== properties
WaitPcs == {"wait_eval", "wait_match", "wait_sleep_time", "wait_sleep_blocks",
            "wait_ret"}
Commands == {"recv", "ack"}

NoDup(seq) == \A i, j \in 1..Len(seq) : seq[i] = seq[j] => i = j

RECURSIVE Flatten(_)
Flatten(ss) == IF ss = <<>> THEN <<>> ELSE Head(ss) \o Flatten(Tail(ss))

\* A fetch has just taken a batch off a queue and entered the wait.
FetchPops == pc \in {"idle", "ack_loop"} /\ pc' = "wait_eval"

\* C1: when wait_for_conn_delay returns Ok(odata), both the time and the
\* block component of the delay of the batch have elapsed on the live state
\* of its chain (time_remaining = 0 and blocks_remaining = 0).
C1_ReturnedBatchIsEligible ==
    (pc = "wait_ret" /\ wres = "ok") => Elapsed(w.odata)

\* C2: with a non-zero connection delay both commands halt by a panic before
\* anything else: no query, no relay, no queue push or pop, no sleep, and
\* neither a result nor an error value is returned.
C2_NonZeroDelayHalts ==
    (op \in Commands /\ connection_delay # 0) =>
        /\ pc = "panicked"
        /\ outcome = "panic"
        /\ effects = {}
        /\ steplog = <<>>
        /\ submitted = <<>>
        /\ results = <<>>
        /\ <<src_operational_data, dst_operational_data>> = q0
        /\ w = NoFrame

C2_Witness ==
    /\ op = "recv" /\ pc = "panicked" /\ connection_delay # 0
    /\ src_operational_data # <<>>

\* C3: a fetch that finds both queues non-empty takes the front of the
\* source queue and leaves the destination queue alone; a destination batch
\* is popped, and the capabilities of the destination chain are called by the
\* wait, only when the source queue is empty.
C3_SrcBeforeDst ==
    [][ /\ (FetchPops /\ src_operational_data # <<>>) =>
              /\ w'.odata = Head(src_operational_data)
              /\ w'.side = "src"
              /\ src_operational_data' = Tail(src_operational_data)
              /\ dst_operational_data' = dst_operational_data
        /\ (FetchPops /\ dst_operational_data' # dst_operational_data) =>
              src_operational_data = <<>>
        /\ (pc \in WaitPcs /\ "dst" \in touched') =>
              src_operational_data = <<>>
        /\ (pc \in WaitPcs /\ pc' = "done" /\ outcome' = "ok") =>
              fetch_result' = w.odata
      ]_vars

C3_Witness ==
    /\ op = "fetch" /\ pc = "done" /\ outcome = "ok"
    /\ fetch_result # NoData /\ fetch_result.target = "src"
    /\ dst_operational_data # <<>>

\* The batch wait_for_conn_delay holds, of the given side.
InFlight(side) ==
    IF w.odata # NoData /\ w.side = side /\ pc \in WaitPcs \cup {"panicked"}
    THEN <<w.odata>> ELSE <<>>

\* C4: each queue is a FIFO of whole batches: what the fetches return from a
\* queue is what was pushed into it, in the same order and with the same
\* contents (target, messages, delay), also across sleeps and recursion.
C4_FifoOrder ==
    /\ \A s \in Sides : pending[s] = InFlight(s) \o Queue(s)
    /\ fetch_result # NoData => fetch_result = expected

C4_Witness ==
    /\ op = "fetch" /\ pc = "done" /\ outcome = "ok"
    /\ fetch_result # NoData /\ "sleep" \in effects
    /\ Queue(fetch_result.target) # <<>>

\* C5, as stated: after an evaluation that takes the positive-time branch at
\* most one more evaluation occurs, so a call evaluates at most twice.
C5_AtMostOneRecursion == w.evals <= 2

\* C5, amended: the height-only branch never evaluates again; an evaluation
\* is entered only by a fetch or after a positive-time sleep; an evaluation
\* that measures time_left = 0 is the last one; the evaluation after a sleep
\* measures time_left = 0 whenever the chain clock has advanced by at least
\* the slept time (it may not have: the recursion is bounded by the chain
\* clock, not by one).
C5_RecursionFollowsClock ==
    [][ /\ pc = "wait_sleep_blocks" => pc' \in {"wait_sleep_blocks", "wait_ret"}
        /\ (pc' = "wait_eval" /\ pc # "wait_eval") =>
              (FetchPops \/ (pc = "wait_sleep_time" /\ w.slept = w.time_left
                              /\ w.time_left > 0))
        /\ (pc = "wait_match" /\ w.time_left = 0) =>
              pc' \in {"wait_match", "wait_ret", "wait_sleep_blocks", "panicked"}
        /\ (pc = "wait_match" /\ w.time_left > 0) =>
              pc' \in {"wait_match", "wait_sleep_time"}
        /\ (pc = "wait_eval" /\ pc' = "wait_match" /\ w.evals >= 1
              /\ chain_time[w.side] >= w.read_time + w.slept) =>
              w'.time_left = 0
      ]_vars

C5_Witness ==
    /\ pc = "wait_match" /\ w.evals = 2 /\ w.time_sleeps = 1
    /\ w.time_left = 0 /\ w.blocks_left > 0

\* C6, as stated: whenever the packet-ack command returns successfully both
\* queues of the path are empty.
C6_AckLeavesQueuesEmpty ==
    (op = "ack" /\ pc = "done" /\ outcome = "ok") => BothEmpty

\* C6, amended: a packet-ack command that returns successfully after a
\* non-empty set of unreceived acknowledgements leaves both queues empty;
\* with an empty set it returns at once and leaves the queues as they were.
C6_AckDrainsAfterNonEmptySet ==
    (op = "ack" /\ pc = "done" /\ outcome = "ok") =>
        IF sequences # {}
        THEN BothEmpty
        ELSE /\ <<src_operational_data, dst_operational_data>> = q0
             /\ results = <<>>

C6_Witness ==
    /\ op = "ack" /\ pc = "done" /\ outcome = "ok" /\ sequences # {}
    /\ \E i \in 1..Len(steplog) : steplog[i][1] = "fetch" /\ steplog[i][2] # 0
    /\ BothEmpty

C8_RecvConcatenatesInOrder ==
    (op = "recv" /\ pc = "done" /\ outcome = "ok" /\ sequences # {}) =>
        /\ results = Flatten([i \in 1..Len(chunks) |-> RelayEvents(chunks[i])])
        /\ steplog = <<<<"unreceived", 0>>>>
                       \o [i \in 1..Len(chunks) |-> <<"relay_events", i>>]
        /\ \A i, j \in 1..Len(results) : i < j => results[i][2] < results[j][2]

C8_Witness ==
    /\ op = "recv" /\ pc = "done" /\ outcome = "ok"
    /\ Len(chunks) = 2 /\ Len(results) = 2

\* C9: the packet-recv command never touches the queues: no push, no pop, no
\* wait and no sleep on any path through it; the queues stay what they were.
C9_RecvBypassesQueues ==
    op = "recv" =>
        /\ <<src_operational_data, dst_operational_data>> = q0
        /\ effects \cap {"push", "pop", "resolve", "sleep", "cap"} = {}
        /\ w = NoFrame
        /\ pc \notin WaitPcs

C9_Witness ==
    /\ op = "recv" /\ pc = "done" /\ outcome = "ok" /\ results # <<>>
    /\ src_operational_data # <<>> /\ dst_operational_data # <<>>

\* The height-only case met a block count that does not fit the u32.
Overflow == w.odata # NoData /\ w.time_left = 0 /\ w.blocks_left > U32_MAX

\* C10, as stated: a block count above u32::MAX in the height-only case comes
\* back to the caller as an error value of its own; the process is not
\* terminated.
C10_RangeErrorIsReturned ==
    (Overflow /\ pc # "wait_match") =>
        (pc # "panicked" /\ outcome \notin {"ok", "panic"})

\* C10, amended: a block count above u32::MAX in the height-only case halts
\* the thread by a panic: the count is not truncated, the max-block-time
\* capability is not called, nothing is slept, and neither the batch nor an
\* error value is ever returned.
C10_RangeOverflowPanics ==
    [][ /\ (pc = "wait_match" /\ Overflow) =>
              /\ pc' \in {"wait_match", "panicked"}
              /\ pc' = "panicked" => outcome' = "panic"
              /\ UNCHANGED <<w, wres, effects, fetch_result>>
        /\ pc = "panicked" =>
              /\ pc' = "panicked"
              /\ UNCHANGED <<w, wres, effects, fetch_result, outcome,
                             src_operational_data, dst_operational_data>>
      ]_vars

C10_Witness ==
    /\ pc = "panicked" /\ Overflow /\ w.block_sleeps = 0
    /\ w.calls.mbt = w.evals

\* A step that is a call of fetch_scheduled_operational_data.
FetchCall == (pc = "idle" /\ op' = "fetch") \/ (pc = "ack_loop" /\ pc' # "ack_loop")

\* C11: a fetch that finds both queues empty returns Ok(None), not an error:
\* no capability of a chain is called, the wait is not entered, nothing is
\* slept, and both queues are still empty.
C11_EmptyFetchReturnsNone ==
    [][ (FetchCall /\ BothEmpty) =>
            /\ pc' = "done"
            /\ outcome' = "ok"
            /\ fetch_result' = NoData
            /\ w' = w
            /\ wres' = "none"
            /\ effects' = effects
            /\ touched' = {}
            /\ src_operational_data' = <<>>
            /\ dst_operational_data' = <<>>
            /\ UNCHANGED <<chain_time, chain_height, pending, submitted, results>>
      ]_vars

C11_Witness ==
    /\ op = "fetch" /\ pc = "done" /\ outcome = "ok"
    /\ fetch_result = NoData /\ BothEmpty /\ q0 = <<<<>>, <<>>>>
    /\ w = NoFrame /\ effects = {} /\ next_id > 1

\* C12: an evaluation that measures time_left > 0 (whatever blocks_left is)
\* is followed by one sleep of exactly time_left and then by a new
\* evaluation that calls the capabilities again; the match is entered only
\* from an evaluation and decides on what that evaluation derived from the
\* chain, never on the values measured before the sleep.
C12_SleepThenFreshEvaluation ==
    [][ /\ (pc = "wait_match" /\ w.time_left > 0 /\ pc' # pc) =>
              /\ pc' = "wait_sleep_time"
              /\ w'.slept = w.time_left
              /\ w'.time_sleeps = Sat(w.time_sleeps)
              /\ w'.block_sleeps = w.block_sleeps
              /\ w'.calls = w.calls
              /\ w'.odata = w.odata
        /\ (pc = "wait_sleep_time" /\ pc' # pc) =>
              /\ pc' = "wait_eval"
              /\ w' = w
        /\ (pc = "wait_eval" /\ pc' # pc) =>
              /\ w'.evals = Sat(w.evals)
              /\ w'.calls.time = Sat(w.calls.time)
              /\ w'.odata = w.odata
              /\ IF pc' = "wait_match"
                 THEN /\ w'.calls = [time |-> Sat(w.calls.time),
                                     mbt |-> Sat(w.calls.mbt),
                                     height |-> Sat(w.calls.height)]
                      /\ w'.time_left = TimeRemaining(w.odata, chain_time[w.side])
                      /\ w'.blocks_left =
                            BlocksRemaining(w.odata, chain_height[w.side])
                 ELSE pc' = "wait_ret" /\ wres' = "err"
        /\ (pc' = "wait_match" /\ pc # "wait_match") => pc = "wait_eval"
        /\ pc = "wait_match" =>
              /\ w.time_left = LiveTimeLeft(w.odata)
              /\ w.blocks_left = LiveBlocksLeft(w.odata)
      ]_vars

\* The second evaluation found both delays elapsed where the first had found
\* both outstanding.
C12_Witness ==
    /\ pc = "wait_match" /\ w.evals = 2 /\ w.time_sleeps = 1
    /\ w.slept = 1 /\ w.odata.delay_blocks = 1 /\ w.odata.delay_time = 1
    /\ w.odata.scheduled_time = 0 /\ w.odata.update_height = 0
    /\ w.time_left = 0 /\ w.blocks_left = 0

\* C13: an evaluation that measures time_left = 0 and blocks_left = N > 0
\* (N within the u32, the max-block-time capability answering) is followed by
\* one sleep of exactly N times the answer of one call of the max-block-time
\* capability; then the same batch is returned: the height capability is not
\* called again (once per evaluation) and there is no new evaluation.
C13_HeightOnlySleepsOnce ==
    [][ /\ (pc = "wait_match" /\ w.time_left = 0 /\ w.blocks_left > 0
              /\ pc' = "wait_sleep_blocks") =>
              /\ w'.mbt \in 1..MaxBlockTime
              /\ w'.slept = w.blocks_left * w'.mbt
              /\ w'.calls = [w.calls EXCEPT !.mbt = Sat(@)]
              /\ w'.block_sleeps = Sat(w.block_sleeps)
              /\ w'.time_sleeps = w.time_sleeps
              /\ w'.evals = w.evals
              /\ w'.odata = w.odata
        /\ (pc' = "wait_sleep_blocks" /\ pc # pc') =>
              (pc = "wait_match" /\ w.time_left = 0 /\ w.blocks_left > 0)
        /\ (pc = "wait_sleep_blocks" /\ pc' # pc) =>
              /\ pc' = "wait_ret"
              /\ wres' = "ok"
              /\ w' = w
        /\ pc = "wait_sleep_blocks" =>
              /\ w.block_sleeps = 1
              /\ w.calls.height = w.evals
              /\ w.slept = w.blocks_left * w.mbt
        /\ (pc = "wait_ret" /\ wres = "ok" /\ w.block_sleeps = 1 /\ pc' # pc) =>
              /\ fetch_result' = w.odata
              /\ w' = w
      ]_vars

\* Two blocks were outstanding and the capability answered two: four slept.
C13_Witness ==
    /\ pc = "wait_ret" /\ wres = "ok" /\ w.block_sleeps = 1
    /\ w.blocks_left = 2 /\ w.mbt = 2 /\ w.slept = 4
    /\ w.calls.height = 1 /\ w.evals = 1

\* C14: an evaluation that measures time_left = 0 and blocks_left = 0 returns
\* the batch at once and unchanged (target, messages and their order, delay
\* requirement): no sleep and no capability call follows the evaluation.
C14_ReadyReturnsAtOnce ==
    [][ /\ (pc = "wait_match" /\ w.time_left = 0 /\ w.blocks_left = 0
              /\ pc' # pc) =>
              /\ pc' = "wait_ret"
              /\ wres' = "ok"
              /\ w' = w
              /\ effects' = effects
              /\ touched' = {}
        /\ (pc = "wait_ret" /\ wres = "ok" /\ w.blocks_left = 0) =>
              /\ w.time_left = 0
              /\ w.block_sleeps = 0
              /\ w.calls.time = w.evals
              /\ w.calls.mbt = w.evals
              /\ w.calls.height = w.evals
              /\ w.evals = 1 => (w.time_sleeps = 0 /\ w.slept = 0)
              /\ w.odata = Front(pending[w.side])
        /\ (pc = "wait_ret" /\ wres = "ok" /\ w.blocks_left = 0 /\ pc' # pc) =>
              /\ fetch_result' = w.odata
              /\ effects' = effects
              /\ touched' = {}
      ]_vars

\* A batch with both delays required was found ready by its first evaluation.
C14_Witness ==
    /\ op = "fetch" /\ pc = "done" /\ outcome = "ok"
    /\ fetch_result # NoData /\ fetch_result = expected
    /\ fetch_result.delay_time = 1 /\ fetch_result.delay_blocks = 1
    /\ w.evals = 1 /\ w.time_left = 0 /\ w.blocks_left = 0
    /\ "sleep" \notin effects

Ids(q) == { q[i].id : i \in 1..Len(q) }
Times(x, seq) == Cardinality({ i \in 1..Len(seq) : seq[i] = x })
FinalFetches == { i \in 1..Len(steplog) : steplog[i][1] = "fetch" }

\* C15: in a packet-ack command a batch taken off a queue is never in a queue
\* again and no batch is submitted twice; when the command returns
\* successfully every batch built from its chunks was submitted exactly once,
\* and when the per-chunk drains left both queues empty the final loop made
\* one fetch, which found nothing: no relay by it, no wait, no sleep.
C15_AckSubmitsEachBatchOnce ==
    op = "ack" =>
        /\ NoDup(submitted)
        /\ (Ids(src_operational_data) \cup Ids(dst_operational_data))
              \cap (Ids(src_ods) \cup Ids(dst_ods) \cup {fetch_result.id}
                      \cup { submitted[i] : i \in 1..Len(submitted) }) = {}
        /\ (pc = "done" /\ outcome = "ok") =>
              /\ \A i \in 1..Len(ingested) : Times(ingested[i], submitted) = 1
              /\ chunks # <<>> =>
                    /\ \A i \in FinalFetches : steplog[i] = <<"fetch", 0>>
                    /\ Cardinality(FinalFetches) = 1
                    /\ w = NoFrame
                    /\ effects \cap {"sleep", "resolve"} = {}

C15_Witness ==
    /\ op = "ack" /\ pc = "done" /\ outcome = "ok"
    /\ Len(chunks) = 2 /\ Len(ingested) = 2 /\ Len(submitted) = 2
    /\ steplog[Len(steplog)] = <<"fetch", 0>>

\* The step submits the batch od and, when the submission succeeds, appends
\* its events at the back of the results.
Submits(od) ==
    /\ submitted' = Append(submitted, od.id)
    /\ results' \in {results, results \o DataEvents(od)}
    /\ results' = results => (pc' = "done" /\ outcome' = "err")

\* C16: in a packet-ack command the steps of a chunk come in the order ingest,
\* non-blocking drain, relay of the destination-bound batches in drained
\* order, relay of the source-bound batches in drained order; the next chunk
\* is ingested only when both drained lists are used up; the fetches of the
\* final loop come after the last chunk; the results grow only at the back,
\* by the events of each relay in that order.
C16_AckStepOrder ==
    [][ op = "ack" =>
        /\ (pc = "ack_chunk" /\ pc' # pc) =>
              IF ci < Len(chunks)
              THEN /\ pc' \in {"ack_drain", "done"}
                   /\ steplog' = Append(steplog, <<"ingest", ci + 1>>)
                   /\ UNCHANGED <<results, submitted, ci>>
              ELSE pc' = "ack_loop" /\ UNCHANGED <<results, submitted, queues>>
        /\ (pc = "ack_drain" /\ pc' # pc) =>
              /\ steplog' = Append(steplog, <<"drain", ci + 1>>)
              /\ pc' \in {"ack_relay", "done"}
              /\ pc' = "ack_relay" =>
                    /\ dst_ods' = Ready(dst_operational_data)
                    /\ src_ods' = Ready(src_operational_data)
              /\ UNCHANGED <<results, submitted, ci>>
        /\ (pc = "ack_relay" /\ dst_ods # <<>>) =>
              /\ Submits(Head(dst_ods))
              /\ dst_ods' = Tail(dst_ods)
              /\ UNCHANGED <<src_ods, ci, queues>>
        /\ (pc = "ack_relay" /\ dst_ods = <<>> /\ src_ods # <<>>) =>
              /\ Submits(Head(src_ods))
              /\ src_ods' = Tail(src_ods)
              /\ UNCHANGED <<dst_ods, ci, queues>>
        /\ (pc = "ack_relay" /\ dst_ods = <<>> /\ src_ods = <<>>) =>
              /\ pc' = "ack_chunk" /\ ci' = ci + 1
              /\ UNCHANGED <<results, submitted>>
        /\ (pc = "ack_final_relay") => Submits(fetch_result)
        /\ (results' # results /\ pc # "done") =>
              pc \in {"ack_relay", "ack_final_relay"}
        /\ (pc \in {"ack_loop", "ack_final_relay"} \cup WaitPcs) =>
              /\ ci = Len(chunks)
              /\ pc' \notin {"ack_chunk", "ack_drain", "ack_relay"}
      ]_vars

\* One drain handed over a source-bound and a destination-bound batch; the
\* destination-bound one, built second, was relayed first.
C16_Witness ==
    /\ op = "ack" /\ pc = "done" /\ outcome = "ok"
    /\ Len(chunks) = 1 /\ Len(submitted) = 2 /\ ingested = <<1, 2>>
    /\ submitted = <<2, 1>>
    /\ results = <<<<"od", 2, chunks[1][1]>>, <<"od", 1, chunks[1][1]>>>>

\* The capabilities called by the step: none after the one that failed.
CallsUpToFailure ==
    \/ w'.calls = [w.calls EXCEPT !.time = Sat(@)]
    \/ w'.calls = [w.calls EXCEPT !.time = Sat(@), !.mbt = Sat(@)]
    \/ w'.calls = [time |-> Sat(w.calls.time), mbt |-> Sat(w.calls.mbt),
                   height |-> Sat(w.calls.height)]

\* C17: a capability that fails in an evaluation of the wait (the first one or
\* one reached after a sleep), or the max-block-time call of the height-only
\* case, ends the wait with an error: the batch is not returned, nothing is
\* slept and no capability is called after the failing call; the failure of
\* the max-block-time call of the height-only case comes before its sleep.
C17_CapabilityFailureIsError ==
    [][ /\ (pc = "wait_eval" /\ pc' # pc /\ pc' # "wait_match") =>
              /\ pc' = "wait_ret" /\ wres' = "err"
              /\ CallsUpToFailure
              /\ w'.time_left = w.time_left /\ w'.blocks_left = w.blocks_left
              /\ w'.slept = w.slept /\ w'.time_sleeps = w.time_sleeps
              /\ w'.block_sleeps = w.block_sleeps
              /\ "sleep" \in effects' => "sleep" \in effects
        /\ (pc = "wait_match" /\ pc' = "wait_ret" /\ wres' = "err") =>
              /\ w.time_left = 0 /\ w.blocks_left > 0
              /\ w' = [w EXCEPT !.calls.mbt = Sat(@)]
              /\ w.block_sleeps = 0
              /\ "sleep" \in effects' => "sleep" \in effects
        /\ wres = "err" => pc \in {"wait_ret", "done"}
        /\ (pc = "wait_ret" /\ wres = "err" /\ pc' # pc) =>
              /\ pc' = "done" /\ outcome' = "err"
              /\ fetch_result' = NoData
              /\ w' = w
              /\ effects' = effects
              /\ touched' = {}
              /\ UNCHANGED <<submitted, results, queues>>
        /\ (wres = "ok" /\ pc = "wait_ret") =>
              (w.calls.height = w.evals /\ w.calls.mbt >= w.evals)
      ]_vars

\* The max-block-time capability failed in the evaluation that followed a
\* sleep.
C17_Witness ==
    /\ op = "fetch" /\ pc = "done" /\ outcome = "err" /\ wres = "err"
    /\ w.evals = 2 /\ w.time_sleeps = 1 /\ w.block_sleeps = 0
    /\ w.calls = [time |-> 2, mbt |-> 2, height |-> 1]
    /\ fetch_result = NoData

\* C18: when wait_for_conn_delay returns Ok(odata) the last evaluation it made
\* measured time_left = 0 on the time it read from the chain, and the time
\* component has elapsed on the live chain; no batch is returned straight
\* after a positive-time sleep (an evaluation follows every such sleep).
C18_TimeVerifiedBeforeRelease ==
    (pc = "wait_ret" /\ wres = "ok") =>
        /\ w.evals >= 1
        /\ w.time_left = 0
        /\ TimeRemaining(w.odata, w.read_time) = 0
        /\ LiveTimeLeft(w.odata) = 0
        /\ w.calls.time = w.evals
        \* one more evaluation than sleeps, until the counters saturate
        /\ (w.time_sleeps = w.evals) => w.evals = MaxCount

\* Two sleeps on a lagging chain clock, then the evaluation that found the
\* time elapsed.
C18_Witness ==
    /\ pc = "wait_ret" /\ wres = "ok"
    /\ w.evals = 3 /\ w.time_sleeps = 2 /\ w.block_sleeps = 0
    /\ w.odata.delay_time = 1 /\ w.read_time = 1

QueuedIds == Ids(src_operational_data) \cup Ids(dst_operational_data)

\* C19: the fetch pops the front batch before the wait, so when the wait fails
\* on a capability the fetch returns the error and the batch is lost: it is
\* not returned and not put back; the queue it came from is the queue before
\* the call less its front (same order), the other queue is as it was.
C19_FailedWaitDropsBatch ==
    /\ (op = "fetch" /\ pc = "done" /\ outcome = "err") =>
          /\ wres = "err"
          /\ fetch_result = NoData
          /\ w.odata # NoData
          /\ w.odata.id \notin QueuedIds
          /\ IF w.side = "src"
             THEN /\ q0[1] = <<w.odata>> \o src_operational_data
                  /\ q0[2] = dst_operational_data
             ELSE /\ q0[1] = <<>> /\ src_operational_data = <<>>
                  /\ q0[2] = <<w.odata>> \o dst_operational_data
    /\ (op = "ack" /\ pc = "done" /\ wres = "err") =>
          /\ outcome = "err"
          /\ fetch_result = NoData
          /\ w.odata.id \notin QueuedIds
          /\ \A i \in 1..Len(submitted) : submitted[i] # w.odata.id

C19_Witness ==
    /\ op = "fetch" /\ pc = "done" /\ outcome = "err" /\ wres = "err"
    /\ Len(q0[1]) = 2 /\ src_operational_data = Tail(q0[1])
    /\ w.odata = Head(q0[1])

\* A submission of the per-chunk relay has failed and ended the command.
DrainSubmitFailed ==
    /\ op = "ack" /\ pc = "done" /\ outcome = "err"
    /\ steplog # <<>> /\ Last(steplog)[1] = "submit"
    /\ ci < Len(chunks)

\* C20: when the submission of a batch of the per-chunk drain fails, the
\* packet-ack command returns the error; the batches of that drain not yet
\* relayed (the rest of the destination-bound ones, all the source-bound
\* ones) are in no queue and were never submitted; the earlier submissions
\* stay made, and their events are not handed to the caller.
C20_FailedSubmitDropsDrained ==
    DrainSubmitFailed =>
        /\ submitted # <<>>
        /\ Last(submitted) = Last(steplog)[2]
        /\ Last(submitted) \notin QueuedIds
        /\ \A x \in Ids(dst_ods) \cup Ids(src_ods) :
              /\ x \notin QueuedIds
              /\ Times(x, submitted) = 0
        /\ Len(steplog) >= 2 =>
              steplog[Len(steplog) - 1][1] \in {"drain", "submit"}
        /\ { results[i][2] : i \in 1..Len(results) }
              = { submitted[j] : j \in 1..(Len(submitted) - 1) }
        /\ ReturnedEvents = <<>>

\* The first destination-bound submission failed with a source-bound batch
\* of the same drain not yet relayed.
C20_Witness ==
    /\ DrainSubmitFailed
    /\ Len(submitted) = 1 /\ dst_ods = <<>> /\ Len(src_ods) = 1
    /\ BothEmpty /\ results = <<>>
    /\ src_ods[1].target = "src"

====
